---- MODULE Spec2Model ----
(***************************************************************************)
(* Model of the chat client's synchronisation hook useChatConnection       *)
(* (src/App.tsx lines 117-659): the message log, the chat directory, the   *)
(* active chat, the connection status and the socket, driven by user       *)
(* actions, socket events, fetch completions and timers.                   *)
(*                                                                         *)
(* Strings are sequences of characters so that trim() and toLowerCase()    *)
(* are computed; a long literal of the source is one "character".          *)
(* Every action is one handler together with the React effects that the    *)
(* state changes of the handler trigger before the next event is handled.  *)
(***************************************************************************)
EXTENDS Integers, Sequences, FiniteSets, TLC

\* ---------------------------------------------------------------- bounds
\* longest message log explored
MaxLog == 2
\* longest chat directory explored
MaxChats == 2
\* demo reply timers that may be armed at once
MaxTimers == 1

\* ------------------------------------------------------- program constants
\* the content-duplicate window of the 'message' handler, in milliseconds
DupWindow == 10000

\* ------------------------------------------------------------- vocabulary
DISCONNECTED == "disconnected"
CONNECTING == "connecting"
CONNECTED == "connected"
ERROR == "error"
ConnectionStatus == {DISCONNECTED, CONNECTING, CONNECTED, ERROR}

\* undefined / null values of the source, one per type
NoId == <<"undef", 0>>
NoChat == "nochat"
NoTime == -1
NoText == <<"undefined">>

\* ids: Math.random().toString(36).substring(7) has no hyphen; ids issued by
\* the server are UUIDs and have one
LocalId(n) == <<"local", n>>
ServerId(n) == <<"srv-", n>>
LocalIds == {LocalId(n) : n \in 1..(MaxLog + 1)}
ServerIds == {ServerId(n) : n \in 1..3}
IncludesHyphen(id) == id[1] = "srv-"

ChatIds == {"c1", "c2"}

\* names and texts
SYSTEM == <<"System">>
OPERATOR == <<"Operator">>
ANONYMOUS == <<"Anonymous">>
MSG_NOT_SENT == <<"Message not sent: Disconnected">>
MEDIA_NOT_SENT == <<"Media not sent: Disconnected">>
DEMO_ACTIVE == <<"Demo Mode Active. Messages are simulated.">>
CONNECTED_TO == <<"Connected to ">>
DISCONNECTED_REASON == <<"Disconnected: ">>
DEMO_RESPONSE == <<"Roger that. Signal is clear.">>

\* ------------------------------------------------------- string functions
\* String.prototype.toLowerCase
LowerChar(c) == IF c = "A" THEN "a" ELSE c
ToLowerCase(s) == [i \in 1..Len(s) |-> LowerChar(s[i])]

\* String.prototype.trim
RECURSIVE TrimStart(_)
TrimStart(s) == IF s # <<>> /\ Head(s) = " " THEN TrimStart(Tail(s)) ELSE s
RECURSIVE TrimEnd(_)
TrimEnd(s) ==
    IF s # <<>> /\ s[Len(s)] = " " THEN TrimEnd(SubSeq(s, 1, Len(s) - 1)) ELSE s
Trim(s) == TrimEnd(TrimStart(s))

\* new Date(createdAt).getTime(): an ISO string <<"iso", ms>> to milliseconds
Iso(t) == <<"iso", t>>
DateGetTime(createdAt) == createdAt[2]
NoCreatedAt == <<"none", NoTime>>

RECURSIVE Reverse(_)
Reverse(s) == IF s = <<>> THEN <<>> ELSE Append(Reverse(Tail(s)), Head(s))

\* ------------------------------------------------------------------ state
VARIABLES
    messages,        \* useState<Message[]>: the log of the active chat
    chats,           \* useState<Chat[]>: the directory, as a sequence of chat ids
    activeChatId,    \* useState: active chat or NoChat (activeChatIdRef follows it)
    status,          \* useState<ConnectionStatus>
    socket,          \* useState<Socket|null>: "null" or "set", and the socket object:
    socketConnected, \*   socket.connected
    listening,       \*   the socket still has its listeners attached
    settings,        \* the settings prop (and settingsRef.current)
    histPending,     \* history fetches in flight
    chatsPending,    \* directory fetches in flight
    demoTimers,      \* armed setTimeout callbacks of the demo branch
    now,             \* Date.now(): the instant of the session, in milliseconds
    op,              \* the handler that ran in the last step
    out,             \* events emitted on the socket by the last step
    torn             \* the socket that the last cleanup of the connection effect left

vars == <<messages, chats, activeChatId, status, socket, socketConnected, listening,
          settings, histPending, chatsPending, demoTimers, now, op, out, torn>>

\* ------------------------------------------------------------- reactions
Emojis == {"+", "-"}
NoReactions == <<>>

\* ---------------------------------------------------------------- messages
\* interface Message (src/types.ts); the media and forward fields are carried
\* along by the source and read by none of its decisions, so they are left out
Message(id, text, sender, timestamp, isMe, isSystem, replyToId, chatId, reactions) ==
    [id |-> id, text |-> text, sender |-> sender, timestamp |-> timestamp,
     isMe |-> isMe, isSystem |-> isSystem, replyToId |-> replyToId,
     chatId |-> chatId, reactions |-> reactions, updatedAt |-> NoTime]

Ids(log) == {log[i].id : i \in 1..Len(log)}

\* Math.random().toString(36).substring(7): a token that no entry of the log
\* carries (two draws of Math.random() are taken to differ)
RandomId(log) ==
    LocalId(CHOOSE n \in 1..(MaxLog + 1) :
        /\ LocalId(n) \notin Ids(log)
        /\ \A k \in 1..(n - 1) : LocalId(k) \in Ids(log))

\* addMessage with setMessages([newMessage]) in place of the append
AddMessage_Replaces(log, text, sender, isMe, isSystem, replyToId) ==
    <<Message(RandomId(log), text, sender, now, isMe, isSystem,
              replyToId, NoChat, NoReactions)>>

\* addMessage: the log after setMessages(prev => [...prev, newMessage])
AddMessage(log, text, sender, isMe, isSystem, replyToId) ==
    Append(log, Message(RandomId(log), text, sender, now, isMe, isSystem,
                        replyToId, NoChat, NoReactions))

\* the system notice addMessage(text, "System", false, true)
Notice(log, text) == AddMessage(log, text, SYSTEM, FALSE, TRUE, NoId)

\* room left in the explored log for k more entries
Room(log, k) == Len(log) + k <= MaxLog

\* --------------------------------------------------------------- directory
IndexOf(dir, c) ==
    IF \E i \in 1..Len(dir) : dir[i] = c
    THEN CHOOSE i \in 1..Len(dir) : dir[i] = c /\ \A k \in 1..(i - 1) : dir[k] # c
    ELSE 0

\* findIndex / splice / [movedChat, ...updatedChats]
MoveToTop(dir, c) ==
    LET i == IndexOf(dir, c) IN
        IF i = 0 THEN dir
        ELSE <<dir[i]>> \o SubSeq(dir, 1, i - 1) \o SubSeq(dir, i + 1, Len(dir))

\* -------------------------------------------------------- socket emissions
Emit(type, payload) == [type |-> type, payload |-> payload]

\* the guard without its socket.connected half
SocketUp_NoConnectedCheck == socket = "set"

\* socket && socket.connected
SocketUp == socket = "set" /\ socketConnected

\* ------------------------------------------------------------------ effects
\* the history fetch that loadHistory starts; settings.username is captured
HistoryFetch(chat, sett) == [chatId |-> chat, username |-> sett.username]

\* the active-chat effect starting the fetch without clearing the log
ActiveChatEffect_KeepsLog(log, chat, st, sett, up) ==
    IF st # CONNECTED \/ sett.isDemoMode \/ chat = NoChat
    THEN [messages |-> log, fetch |-> {}, out |-> <<>>]
    ELSE [messages |-> log,
          fetch |-> {HistoryFetch(chat, sett)},
          out |-> IF up THEN <<Emit("joinChat", [chatId |-> chat])>> ELSE <<>>]

\* the active-chat effect without its joinChat
ActiveChatEffect_NoJoin(log, chat, st, sett, up) ==
    IF st # CONNECTED \/ sett.isDemoMode \/ chat = NoChat
    THEN [messages |-> log, fetch |-> {}, out |-> <<>>]
    ELSE [messages |-> <<>>,
          fetch |-> {HistoryFetch(chat, sett)},
          out |-> <<>>]

\* the active-chat effect (deps: activeChatId, status, socket, settings): what
\* it does to the log, which fetch it starts and what it emits
ActiveChatEffect(log, chat, st, sett, up) ==
    IF st # CONNECTED \/ sett.isDemoMode \/ chat = NoChat
    THEN [messages |-> log, fetch |-> {}, out |-> <<>>]
    ELSE [messages |-> <<>>,
          fetch |-> {HistoryFetch(chat, sett)},
          out |-> IF up THEN <<Emit("joinChat", [chatId |-> chat])>> ELSE <<>>]

\* the directory effect (deps: status, fetchChats): fetchChats() closes over
\* the activeChatId of the render that created it
FetchChatsEffect(st, chat) ==
    IF st = CONNECTED THEN {[hadActive |-> chat # NoChat]} ELSE {}

\* ------------------------------------------------------------- user actions
\* settingsRef.current.username?.trim() || 'Anonymous'
SendUsername == IF Trim(settings.username) = <<>> THEN ANONYMOUS ELSE Trim(settings.username)

\* ChatList: click on a chat of the directory, then the effects of the change
SetActiveChatId(c) ==
    /\ op' = "setActiveChatId"
    /\ \E i \in 1..Len(chats) : chats[i] = c
    /\ c # activeChatId
    /\ LET eff == ActiveChatEffect(messages, c, status, settings, SocketUp) IN
        /\ activeChatId' = c
        /\ messages' = eff.messages
        /\ histPending' = histPending \cup eff.fetch
        /\ chatsPending' = chatsPending \cup FetchChatsEffect(status, c)
        /\ out' = eff.out
    /\ UNCHANGED <<chats, status, socket, socketConnected, listening, settings,
                   demoTimers, now, torn>>

\* sendMessage emitting the message without its correlation token
SendMessage_NoToken(text, replyToId) ==
    LET trimmedText == Trim(text)
        optimistic == AddMessage(messages, trimmedText, SendUsername, TRUE, FALSE, replyToId)
    IN  /\ IF text = <<>> \/ trimmedText = <<>>
           THEN /\ op' = "sendMessage:empty"
                /\ out' = <<>>
                /\ UNCHANGED <<messages, chats, demoTimers>>
           ELSE IF settings.isDemoMode
           THEN /\ op' = "sendMessage"
                /\ Room(messages, 1)
                /\ demoTimers < MaxTimers
                /\ messages' = optimistic
                /\ demoTimers' = demoTimers + 1
                /\ out' = <<>>
                /\ UNCHANGED chats
           ELSE IF SocketUp
           THEN /\ op' = "sendMessage"
                /\ Room(messages, 1)
                /\ messages' = optimistic
                /\ out' = <<Emit("message",
                                 [user |-> SendUsername, text |-> trimmedText,
                                  tempId |-> NoId, replyToId |-> replyToId,
                                  chatId |-> activeChatId, isForwarded |-> FALSE,
                                  forwardedFrom |-> NoText])>>
                /\ chats' = IF activeChatId # NoChat
                            THEN MoveToTop(chats, activeChatId) ELSE chats
                /\ UNCHANGED demoTimers
           ELSE /\ op' = "sendMessage"
                /\ Room(messages, 2)
                /\ messages' = Notice(optimistic, MSG_NOT_SENT)
                /\ out' = <<>>
                /\ UNCHANGED <<chats, demoTimers>>
        /\ UNCHANGED <<activeChatId, status, socket, socketConnected, listening,
                       settings, histPending, chatsPending, now, torn>>

\* sendMessage(text, replyToId)
SendMessage(text, replyToId) ==
    LET trimmedText == Trim(text)
        optimistic == AddMessage(messages, trimmedText, SendUsername, TRUE, FALSE, replyToId)
        tempId == optimistic[Len(optimistic)].id
    IN  /\ IF text = <<>> \/ trimmedText = <<>>
           THEN /\ op' = "sendMessage:empty"
                /\ out' = <<>>
                /\ UNCHANGED <<messages, chats, demoTimers>>
           ELSE IF settings.isDemoMode
           THEN /\ op' = "sendMessage"
                /\ Room(messages, 1)
                /\ demoTimers < MaxTimers
                /\ messages' = optimistic
                /\ demoTimers' = demoTimers + 1
                /\ out' = <<>>
                /\ UNCHANGED chats
           ELSE IF SocketUp
           THEN /\ op' = "sendMessage"
                /\ Room(messages, 1)
                /\ messages' = optimistic
                /\ out' = <<Emit("message",
                                 [user |-> SendUsername, text |-> trimmedText,
                                  tempId |-> tempId, replyToId |-> replyToId,
                                  chatId |-> activeChatId, isForwarded |-> FALSE,
                                  forwardedFrom |-> NoText])>>
                /\ chats' = IF activeChatId # NoChat
                            THEN MoveToTop(chats, activeChatId) ELSE chats
                /\ UNCHANGED demoTimers
           ELSE /\ op' = "sendMessage"
                /\ Room(messages, 2)
                /\ messages' = Notice(optimistic, MSG_NOT_SENT)
                /\ out' = <<>>
                /\ UNCHANGED <<chats, demoTimers>>
        /\ UNCHANGED <<activeChatId, status, socket, socketConnected, listening,
                       settings, histPending, chatsPending, now, torn>>

\* the caption of a media message: caption || `[${KIND}] ${fileName}`
MEDIA_CAPTION == <<"[IMAGE] f">>
MediaText(caption) == IF caption = NoText \/ caption = <<>> THEN MEDIA_CAPTION ELSE caption

\* sendMediaMessage(uploadData, replyToId, caption)
SendMediaMessage(caption, replyToId) ==
    LET localMessage == Message(RandomId(messages), MediaText(caption), SendUsername, now,
                                TRUE, FALSE, replyToId, NoChat, NoReactions)
        optimistic == Append(messages, localMessage)
    IN  /\ op' = "sendMediaMessage"
        /\ IF settings.isDemoMode
           THEN /\ Room(messages, 1)
                /\ messages' = optimistic
                /\ out' = <<>>
                /\ UNCHANGED chats
           ELSE IF SocketUp
           THEN /\ Room(messages, 1)
                /\ messages' = optimistic
                /\ out' = <<Emit("message",
                                 [user |-> SendUsername, text |-> MediaText(caption),
                                  tempId |-> localMessage.id, replyToId |-> replyToId,
                                  chatId |-> activeChatId, isForwarded |-> FALSE,
                                  forwardedFrom |-> NoText])>>
                /\ chats' = IF activeChatId # NoChat
                            THEN MoveToTop(chats, activeChatId) ELSE chats
           ELSE /\ Room(messages, 2)
                /\ messages' = Notice(optimistic, MEDIA_NOT_SENT)
                /\ out' = <<>>
                /\ UNCHANGED chats
        /\ UNCHANGED <<activeChatId, status, socket, socketConnected, listening,
                       settings, histPending, chatsPending, demoTimers, now, torn>>

\* the demo reply of a timer that stays set (setInterval in place of setTimeout)
DemoReply_KeepsTimer ==
    /\ op' = "demoReply"
    /\ demoTimers > 0
    /\ Room(messages, 1)
    /\ messages' = AddMessage(messages, DEMO_RESPONSE, OPERATOR, FALSE, FALSE, NoId)
    /\ out' = <<>>
    /\ UNCHANGED <<chats, activeChatId, status, socket, socketConnected, listening,
                   settings, histPending, chatsPending, demoTimers, now, torn>>

\* the demo reply: addMessage(randomResponse, "Operator", false)
DemoReply ==
    /\ op' = "demoReply"
    /\ demoTimers > 0
    /\ Room(messages, 1)
    /\ demoTimers' = demoTimers - 1
    /\ messages' = AddMessage(messages, DEMO_RESPONSE, OPERATOR, FALSE, FALSE, NoId)
    /\ out' = <<>>
    /\ UNCHANGED <<chats, activeChatId, status, socket, socketConnected, listening,
                   settings, histPending, chatsPending, now, torn>>

\* editMessage without its guard on the socket
EditMessage_NoGuard(id, newText) ==
    /\ op' = "editMessage"
    /\ messages' = [i \in 1..Len(messages) |->
                       IF messages[i].id = id
                       THEN [messages[i] EXCEPT !.text = newText, !.updatedAt = now]
                       ELSE messages[i]]
    /\ out' = <<Emit("editMessage", [id |-> id, text |-> newText])>>
    /\ UNCHANGED <<chats, activeChatId, status, socket, socketConnected, listening,
                   settings, histPending, chatsPending, demoTimers, now, torn>>

\* editMessage(id, newText)
EditMessage(id, newText) ==
    /\ op' = "editMessage"
    /\ IF ~SocketUp
       THEN /\ out' = <<>>
            /\ UNCHANGED messages
       ELSE /\ messages' = [i \in 1..Len(messages) |->
                               IF messages[i].id = id
                               THEN [messages[i] EXCEPT !.text = newText, !.updatedAt = now]
                               ELSE messages[i]]
            /\ out' = <<Emit("editMessage", [id |-> id, text |-> newText])>>
    /\ UNCHANGED <<chats, activeChatId, status, socket, socketConnected, listening,
                   settings, histPending, chatsPending, demoTimers, now, torn>>

\* prev.filter(msg => msg.id !== id)
RECURSIVE FilterOut(_, _)
FilterOut(log, id) ==
    IF log = <<>> THEN <<>>
    ELSE IF Head(log).id = id THEN FilterOut(Tail(log), id)
    ELSE <<Head(log)>> \o FilterOut(Tail(log), id)

\* deleteMessage(id)
DeleteMessage(id) ==
    /\ op' = "deleteMessage"
    /\ IF ~SocketUp
       THEN /\ out' = <<>>
            /\ UNCHANGED messages
       ELSE /\ messages' = FilterOut(messages, id)
            /\ out' = <<Emit("deleteMessage", [id |-> id])>>
    /\ UNCHANGED <<chats, activeChatId, status, socket, socketConnected, listening,
                   settings, histPending, chatsPending, demoTimers, now, torn>>

\* createChat putting the chat into the directory before the server confirms it
CreateChat_Optimistic ==
    /\ op' = "createChat"
    /\ out' = IF ~SocketUp THEN <<>> ELSE <<Emit("createChat", [name |-> <<"n">>])>>
    /\ chats' = <<"c3">> \o chats
    /\ UNCHANGED <<messages, activeChatId, status, socket, socketConnected,
                   listening, settings, histPending, chatsPending, demoTimers, now, torn>>

\* createChat(name, description)
CreateChat ==
    /\ op' = "createChat"
    /\ out' = IF ~SocketUp THEN <<>> ELSE <<Emit("createChat", [name |-> <<"n">>])>>
    /\ UNCHANGED <<messages, chats, activeChatId, status, socket, socketConnected,
                   listening, settings, histPending, chatsPending, demoTimers, now, torn>>

\* currentReactors.filter(u => u !== username)
RECURSIVE Without(_, _)
Without(reactors, u) ==
    IF reactors = <<>> THEN <<>>
    ELSE IF Head(reactors) = u THEN Without(Tail(reactors), u)
    ELSE <<Head(reactors)>> \o Without(Tail(reactors), u)

Includes(reactors, u) == \E i \in 1..Len(reactors) : reactors[i] = u

\* the toggle without the removal of a symbol that nobody is left on
Toggled_KeepsEmptyKey(reactions, emoji, username) ==
    LET currentReactors == IF emoji \in DOMAIN reactions THEN reactions[emoji] ELSE <<>>
        newReactors == IF Includes(currentReactors, username)
                       THEN Without(currentReactors, username)
                       ELSE Append(currentReactors, username)
    IN  [e \in (DOMAIN reactions) \cup {emoji} |->
            IF e = emoji THEN newReactors ELSE reactions[e]]

\* the reaction mapping after one toggle of emoji by username
Toggled(reactions, emoji, username) ==
    LET currentReactors == IF emoji \in DOMAIN reactions THEN reactions[emoji] ELSE <<>>
        newReactors == IF Includes(currentReactors, username)
                       THEN Without(currentReactors, username)
                       ELSE Append(currentReactors, username)
    IN  IF newReactors = <<>>
        THEN [e \in (DOMAIN reactions) \ {emoji} |-> reactions[e]]
        ELSE [e \in (DOMAIN reactions) \cup {emoji} |->
                 IF e = emoji THEN newReactors ELSE reactions[e]]

\* toggleReaction(messageId, emoji)
ToggleReaction(messageId, emoji) ==
    /\ op' = "toggleReaction"
    /\ IF ~SocketUp
       THEN /\ out' = <<>>
            /\ UNCHANGED messages
       ELSE /\ messages' = [i \in 1..Len(messages) |->
                               IF messages[i].id = messageId
                               THEN [messages[i] EXCEPT
                                        !.reactions = Toggled(@, emoji, settings.username)]
                               ELSE messages[i]]
            /\ out' = <<Emit("toggleReaction",
                             [messageId |-> messageId, emoji |-> emoji,
                              username |-> settings.username])>>
    /\ UNCHANGED <<chats, activeChatId, status, socket, socketConnected, listening,
                   settings, histPending, chatsPending, demoTimers, now, torn>>

\* forwardMessage moving the message: the source entry leaves the log
ForwardMessage_Moves(message, targetChatId) ==
    /\ op' = "forwardMessage"
    /\ out' = IF ~SocketUp THEN <<>>
              ELSE <<Emit("message",
                          [user |-> settings.username, text |-> message.text,
                           tempId |-> NoId, replyToId |-> NoId,
                           chatId |-> targetChatId, isForwarded |-> TRUE,
                           forwardedFrom |-> message.sender])>>
    /\ messages' = IF ~SocketUp THEN messages ELSE FilterOut(messages, message.id)
    /\ UNCHANGED <<chats, activeChatId, status, socket, socketConnected,
                   listening, settings, histPending, chatsPending, demoTimers, now, torn>>

\* forwardMessage(message, targetChatId)
ForwardMessage(message, targetChatId) ==
    /\ op' = "forwardMessage"
    /\ out' = IF ~SocketUp THEN <<>>
              ELSE <<Emit("message",
                          [user |-> settings.username, text |-> message.text,
                           tempId |-> NoId, replyToId |-> NoId,
                           chatId |-> targetChatId, isForwarded |-> TRUE,
                           forwardedFrom |-> message.sender])>>
    /\ UNCHANGED <<messages, chats, activeChatId, status, socket, socketConnected,
                   listening, settings, histPending, chatsPending, demoTimers, now, torn>>

\* ------------------------------------------------------------ socket events
\* a socket delivers events while it is connected and its listeners are attached
Delivering == socket = "set" /\ listening /\ socketConnected

\* newSocket.on('connect'), then the effects of status becoming CONNECTED
OnConnect ==
    /\ op' = "connect"
    /\ socket = "set" /\ listening /\ ~socketConnected
    /\ LET noticed == Notice(messages, CONNECTED_TO)
           joined == (IF activeChatId # NoChat
                      THEN <<Emit("joinChat", [chatId |-> activeChatId])>> ELSE <<>>)
                     \o <<Emit("join", [username |-> settings.username])>>
           eff == ActiveChatEffect(noticed, activeChatId, CONNECTED, settings, TRUE)
       IN  /\ Len(eff.messages) <= MaxLog
           /\ socketConnected' = TRUE
           /\ status' = CONNECTED
           /\ messages' = eff.messages
           /\ histPending' = histPending \cup eff.fetch
           /\ chatsPending' = chatsPending \cup FetchChatsEffect(CONNECTED, activeChatId)
           /\ out' = joined \o eff.out
    /\ UNCHANGED <<chats, activeChatId, socket, listening, settings, demoTimers, now, torn>>

\* connect_error adding a notice for every failed attempt
OnConnectError_Notices ==
    /\ op' = "connect_error"
    /\ socket = "set" /\ listening /\ ~socketConnected
    /\ Room(messages, 1)
    /\ status' = ERROR
    /\ messages' = Notice(messages, DISCONNECTED_REASON)
    /\ out' = <<>>
    /\ UNCHANGED <<chats, activeChatId, socket, socketConnected, listening,
                   settings, histPending, chatsPending, demoTimers, now, torn>>

\* connect_error of a socket with an attempt limit of one: it stops retrying
OnConnectError_GivesUp ==
    /\ op' = "connect_error"
    /\ socket = "set" /\ listening /\ ~socketConnected
    /\ status' = ERROR
    /\ listening' = FALSE
    /\ out' = <<>>
    /\ UNCHANGED <<messages, chats, activeChatId, socket, socketConnected,
                   settings, histPending, chatsPending, demoTimers, now, torn>>

\* newSocket.on('connect_error')
OnConnectError ==
    /\ op' = "connect_error"
    /\ socket = "set" /\ listening /\ ~socketConnected
    /\ status' = ERROR
    /\ out' = <<>>
    /\ UNCHANGED <<messages, chats, activeChatId, socket, socketConnected, listening,
                   settings, histPending, chatsPending, demoTimers, now, torn>>

\* newSocket.on('disconnect')
OnDisconnect ==
    /\ op' = "disconnect"
    /\ Delivering
    /\ Room(messages, 1)
    /\ socketConnected' = FALSE
    /\ status' = DISCONNECTED
    /\ messages' = Notice(messages, DISCONNECTED_REASON)
    /\ out' = <<>>
    /\ UNCHANGED <<chats, activeChatId, socket, listening, settings, histPending,
                   chatsPending, demoTimers, now, torn>>

\* isFromMe by exact comparison of the names
IsFromMe_Exact(data) == data.user = settings.username

\* (data.user || data.username || '').trim().toLowerCase() === current user, same
IsFromMe(data) == ToLowerCase(Trim(data.user)) = ToLowerCase(Trim(settings.username))

\* the 'message' handler without its isolation check
OtherChat_NoCheck(data) == FALSE

\* the isolation check of the 'message' handler
OtherChat(data) ==
    data.chatId # NoChat /\ activeChatId # NoChat /\ data.chatId # activeChatId

\* the condition of the echo map for one entry; isFromMe is computed once by
\* the handler
EchoMatch(msg, data, isFromMe) ==
    \/ msg.id = data.tempId
    \/ isFromMe /\ msg.text = data.text /\ ~IncludesHyphen(msg.id)

\* the echo map rewriting the id alone
EchoRewrite_KeepsTimestamp(msg, data) ==
    [msg EXCEPT !.id = data.id, !.replyToId = data.replyToId]

\* what the echo map makes of a matching entry
EchoRewrite(msg, data) ==
    [msg EXCEPT !.id = data.id,
                !.timestamp = IF data.createdAt # NoCreatedAt
                              THEN DateGetTime(data.createdAt) ELSE msg.timestamp,
                !.replyToId = data.replyToId]

\* setMessages(prev => prev.map(...)) of the echo branch
EchoMap(log, data, isFromMe) ==
    [i \in 1..Len(log) |->
        IF EchoMatch(log[i], data, isFromMe) THEN EchoRewrite(log[i], data) ELSE log[i]]

\* matched, as the echo map leaves it
Matched(log, data, isFromMe) ==
    \E i \in 1..Len(log) : EchoMatch(log[i], data, isFromMe)

\* prev.some(m => m.id === data.id)
IdDuplicate(log, data) == data.id # NoId /\ data.id \in Ids(log)

\* the content-based duplicate of the insert branch
ContentDuplicate(log, data, currentTime) ==
    \E i \in 1..Len(log) :
        /\ log[i].text = data.text
        /\ log[i].sender = data.user
        /\ log[i].timestamp > currentTime - DupWindow
        /\ ~log[i].isSystem

\* the entry the insert branch builds
NewMessage(log, data, currentTime) ==
    Message(IF data.id # NoId THEN data.id ELSE RandomId(log),
            data.text, data.user,
            IF data.createdAt # NoCreatedAt THEN DateGetTime(data.createdAt) ELSE currentTime,
            FALSE, FALSE, data.replyToId, data.chatId, NoReactions)

\* the second setMessages updater: TRUE when it appends
Inserts(log, data, currentTime) ==
    /\ ~IdDuplicate(log, data)
    /\ ~ContentDuplicate(log, data, currentTime)
    /\ ~OtherChat(data)

\* the name op gives to a reconciled echo: by token or by sender and text
EchoTag(data) == IF data.tempId # NoId THEN "message:echo:token" ELSE "message:echo:text"

\* newSocket.on('message'). `matched` is assigned inside the first updater;
\* React runs an updater either at once or at the next render, so the handler
\* may or may not see it set (eager). op records the branch that was taken.
OnMessage(data) ==
    /\ Delivering
    /\ out' = <<>>
    /\ IF OtherChat(data)
       THEN /\ op' = "message:ignored"
            /\ UNCHANGED <<messages, chats>>
       ELSE LET isFromMe == IsFromMe(data)
                tried == data.tempId # NoId \/ isFromMe
                echoed == IF tried THEN EchoMap(messages, data, isFromMe) ELSE messages
                matched == tried /\ Matched(messages, data, isFromMe)
            IN  \E eager \in (IF matched THEN BOOLEAN ELSE {TRUE}) :
                    IF matched /\ eager
                    THEN /\ op' = EchoTag(data)
                         /\ messages' = echoed
                         /\ UNCHANGED chats
                    ELSE IF Inserts(echoed, data, now)
                    THEN /\ op' = "message:append"
                         /\ Room(echoed, 1)
                         /\ messages' = Append(echoed, NewMessage(echoed, data, now))
                         /\ chats' = IF data.chatId # NoChat
                                     THEN MoveToTop(chats, data.chatId) ELSE chats
                    ELSE /\ op' = IF matched THEN EchoTag(data) ELSE "message:duplicate"
                         /\ messages' = echoed
                         /\ UNCHANGED chats
    /\ UNCHANGED <<activeChatId, status, socket, socketConnected, listening, settings,
                   histPending, chatsPending, demoTimers, now, torn>>

\* 'messageUpdated' applied to the entries of this user only
OnMessageUpdated_OwnOnly(id, text, updatedAt) ==
    /\ op' = "messageUpdated"
    /\ Delivering
    /\ out' = <<>>
    /\ messages' = [i \in 1..Len(messages) |->
                       IF messages[i].id = id /\ messages[i].isMe
                       THEN [messages[i] EXCEPT !.text = text,
                                                !.updatedAt = DateGetTime(updatedAt)]
                       ELSE messages[i]]
    /\ UNCHANGED <<chats, activeChatId, status, socket, socketConnected, listening,
                   settings, histPending, chatsPending, demoTimers, now, torn>>

\* 'messageUpdated' inserting the message when no entry carries the id
OnMessageUpdated_Upserts(id, text, updatedAt) ==
    /\ op' = "messageUpdated"
    /\ Delivering
    /\ out' = <<>>
    /\ messages' = IF id \in Ids(messages)
                   THEN [i \in 1..Len(messages) |->
                            IF messages[i].id = id
                            THEN [messages[i] EXCEPT !.text = text,
                                                     !.updatedAt = DateGetTime(updatedAt)]
                            ELSE messages[i]]
                   ELSE Append(messages,
                               Message(id, text, NoText, DateGetTime(updatedAt), FALSE, FALSE,
                                       NoId, NoChat, NoReactions))
    /\ UNCHANGED <<chats, activeChatId, status, socket, socketConnected, listening,
                   settings, histPending, chatsPending, demoTimers, now, torn>>

\* newSocket.on('messageUpdated')
OnMessageUpdated(id, text, updatedAt) ==
    /\ op' = "messageUpdated"
    /\ Delivering
    /\ out' = <<>>
    /\ messages' = [i \in 1..Len(messages) |->
                       IF messages[i].id = id
                       THEN [messages[i] EXCEPT !.text = text,
                                                !.updatedAt = DateGetTime(updatedAt)]
                       ELSE messages[i]]
    /\ UNCHANGED <<chats, activeChatId, status, socket, socketConnected, listening,
                   settings, histPending, chatsPending, demoTimers, now, torn>>

\* newSocket.on('messageDeleted')
OnMessageDeleted(id) ==
    /\ op' = "messageDeleted"
    /\ Delivering
    /\ out' = <<>>
    /\ messages' = FilterOut(messages, id)
    /\ UNCHANGED <<chats, activeChatId, status, socket, socketConnected, listening,
                   settings, histPending, chatsPending, demoTimers, now, torn>>

\* 'reactionUpdated' merging the mapping of the event into that of the entry,
\* symbol by symbol
OnReactionUpdated_Merges(messageId, reactions) ==
    /\ op' = "reactionUpdated"
    /\ Delivering
    /\ out' = <<>>
    /\ messages' = [i \in 1..Len(messages) |->
                       IF messages[i].id = messageId
                       THEN [messages[i] EXCEPT !.reactions =
                                [e \in DOMAIN messages[i].reactions \cup DOMAIN reactions |->
                                    IF e \in DOMAIN reactions THEN reactions[e]
                                    ELSE messages[i].reactions[e]]]
                       ELSE messages[i]]
    /\ UNCHANGED <<chats, activeChatId, status, socket, socketConnected, listening,
                   settings, histPending, chatsPending, demoTimers, now, torn>>

\* newSocket.on('reactionUpdated')
OnReactionUpdated(messageId, reactions) ==
    /\ op' = "reactionUpdated"
    /\ Delivering
    /\ out' = <<>>
    /\ messages' = [i \in 1..Len(messages) |->
                       IF messages[i].id = messageId
                       THEN [messages[i] EXCEPT !.reactions = reactions]
                       ELSE messages[i]]
    /\ UNCHANGED <<chats, activeChatId, status, socket, socketConnected, listening,
                   settings, histPending, chatsPending, demoTimers, now, torn>>

\* newSocket.on('chatCreated')
OnChatCreated(newChat) ==
    /\ op' = "chatCreated"
    /\ Delivering
    /\ Len(chats) < MaxChats
    /\ out' = <<>>
    /\ chats' = <<newChat>> \o chats
    /\ UNCHANGED <<messages, activeChatId, status, socket, socketConnected, listening,
                   settings, histPending, chatsPending, demoTimers, now, torn>>

\* ---------------------------------------------------------- the collaborators
\* GET /api/messages?chatId=: the rows of a chat, newest first
DbMessage(id, username, content, createdAt, chatId) ==
    [id |-> id, username |-> username, content |-> content, createdAt |-> createdAt,
     chatId |-> chatId, replyToId |-> NoId, reactions |-> NoReactions]

ServerHistory(chat) ==
    IF chat = "c1"
    THEN <<DbMessage(ServerId(2), <<"b">>, <<"y">>, Iso(DupWindow), "c1"),
           DbMessage(ServerId(1), <<"A">>, <<"h">>, Iso(0), "c1")>>
    ELSE <<DbMessage(ServerId(3), <<"b">>, <<"h">>, Iso(0), "c2")>>

\* GET /api/chats: the directory snapshots the server may return
Directories == {<<"c1", "c2">>}

\* dbMessages.reverse().map(...) of loadHistory, for the captured username
LoadedMessages(dbMessages, username) ==
    LET rev == Reverse(dbMessages) IN
        [i \in 1..Len(rev) |->
            [id |-> rev[i].id, text |-> rev[i].content, sender |-> rev[i].username,
             timestamp |-> DateGetTime(rev[i].createdAt),
             isMe |-> rev[i].username = username, isSystem |-> FALSE,
             replyToId |-> rev[i].replyToId, chatId |-> rev[i].chatId,
             reactions |-> rev[i].reactions, updatedAt |-> NoTime]]

\* the continuation of loadHistory starting the fetch again when it failed
HistoryLoaded_Retries(f, ok) ==
    /\ op' = "historyLoaded"
    /\ f \in histPending
    /\ histPending' = IF ok THEN histPending \ {f} ELSE histPending
    /\ out' = <<>>
    /\ messages' = IF ok THEN LoadedMessages(ServerHistory(f.chatId), f.username)
                   ELSE messages
    /\ UNCHANGED <<chats, activeChatId, status, socket, socketConnected, listening,
                   settings, chatsPending, demoTimers, now, torn>>

\* the continuation of loadHistory adding the fetched history to the log
HistoryLoaded_Merges(f, ok) ==
    /\ op' = "historyLoaded"
    /\ f \in histPending
    /\ histPending' = histPending \ {f}
    /\ out' = <<>>
    /\ messages' = IF ok
                   THEN messages \o LoadedMessages(ServerHistory(f.chatId), f.username)
                   ELSE messages
    /\ UNCHANGED <<chats, activeChatId, status, socket, socketConnected, listening,
                   settings, chatsPending, demoTimers, now, torn>>

\* the continuation of loadHistory after await fetch(...)
HistoryLoaded(f, ok) ==
    /\ op' = "historyLoaded"
    /\ f \in histPending
    /\ histPending' = histPending \ {f}
    /\ out' = <<>>
    /\ messages' = IF ok THEN LoadedMessages(ServerHistory(f.chatId), f.username)
                   ELSE messages
    /\ UNCHANGED <<chats, activeChatId, status, socket, socketConnected, listening,
                   settings, chatsPending, demoTimers, now, torn>>

\* the continuation of fetchChats after await fetch(...), then the effects of
\* the auto-selection
FetchChatsDone(p, ok, data) ==
    /\ op' = "fetchChatsDone"
    /\ p \in chatsPending
    /\ IF ~ok
       THEN /\ chatsPending' = chatsPending \ {p}
            /\ out' = <<>>
            /\ UNCHANGED <<messages, chats, activeChatId, histPending>>
       ELSE LET selected == IF Len(data) > 0 /\ ~p.hadActive THEN data[1] ELSE activeChatId
                changed == selected # activeChatId
                eff == IF changed
                       THEN ActiveChatEffect(messages, selected, status, settings, SocketUp)
                       ELSE [messages |-> messages, fetch |-> {}, out |-> <<>>]
            IN  /\ chats' = data
                /\ activeChatId' = selected
                /\ messages' = eff.messages
                /\ histPending' = histPending \cup eff.fetch
                /\ chatsPending' = (chatsPending \ {p}) \cup
                                   (IF changed THEN FetchChatsEffect(status, selected) ELSE {})
                /\ out' = eff.out
    /\ UNCHANGED <<status, socket, socketConnected, listening, settings, demoTimers, now, torn>>

\* ------------------------------------------------------------------ settings
\* a socket object: whether its listeners are attached and whether it is connected
Socket(l, c) == [listening |-> l, connected |-> c]

\* no socket, or one without listeners that is closed
NoSocket == Socket(FALSE, FALSE)

\* the socket the connection effect created last
SocketNow == Socket(listening, socketConnected)

\* the cleanup that keeps the listeners of the old socket attached
TornDown_KeepsListeners(s) == Socket(s.listening, FALSE)

\* the cleanup of the connection effect: newSocket.removeAllListeners();
\* newSocket.disconnect()
TornDown(s) == Socket(FALSE, FALSE)

Settings(username, serverUrl, isDemoMode) ==
    [username |-> username, serverUrl |-> serverUrl, isDemoMode |-> isDemoMode]

\* the deps compared as the settings object, which every save replaces
SameSession_ByReference(a, b) == FALSE

\* the deps of the connection effect
SameSession(a, b) ==
    a.serverUrl = b.serverUrl /\ a.isDemoMode = b.isDemoMode /\ a.username = b.username

\* handleSaveSettings, then the effects of the new settings: the cleanup of the
\* connection effect, its body, the directory effect and the active-chat
\* effect (which still sees the status and the socket of the render)
SaveSettings(newSettings) ==
    LET sanitized == [newSettings EXCEPT !.username = Trim(newSettings.username)]
        noticed == IF sanitized.isDemoMode THEN Notice(messages, DEMO_ACTIVE) ELSE messages
        eff == ActiveChatEffect(noticed, activeChatId, status, sanitized, FALSE)
        newStatus == IF sanitized.isDemoMode THEN CONNECTED ELSE CONNECTING
    IN  /\ op' = "saveSettings"
        /\ settings' = sanitized
        /\ IF SameSession(settings, sanitized)
           THEN /\ out' = <<>>
                /\ UNCHANGED <<messages, status, socket, socketConnected, listening,
                               histPending, chatsPending, torn>>
           ELSE /\ Len(eff.messages) <= MaxLog
                /\ torn' = IF settings.isDemoMode \/ socket = "null"
                            THEN torn
                            ELSE TornDown(SocketNow)
                /\ status' = newStatus
                /\ socket' = IF sanitized.isDemoMode THEN socket ELSE "set"
                /\ socketConnected' = FALSE
                /\ listening' = ~sanitized.isDemoMode
                /\ messages' = eff.messages
                /\ histPending' = histPending \cup eff.fetch
                /\ chatsPending' = chatsPending
                       \cup (IF settings.serverUrl # sanitized.serverUrl
                             THEN FetchChatsEffect(status, activeChatId) ELSE {})
                       \cup (IF newStatus # status
                             THEN FetchChatsEffect(newStatus, activeChatId) ELSE {})
                /\ out' = <<>>
        /\ UNCHANGED <<chats, activeChatId, demoTimers, now>>

\* ----------------------------------------------------------------- inputs
\* what the settings panel may save (handleSaveSettings trims the name)
SettingsInputs == {Settings(<<"A", " ">>, "u1", d) : d \in BOOLEAN}
\* what the user may type into the composer
TextInputs == {<<" ", "h">>, <<" ">>}
\* the caption of a media message: none
CaptionInputs == {NoText}
ReplyInputs == {NoId}
\* inbound 'message' events of the session specification
SessionEvents ==
    [id : {ServerId(1)}, tempId : {NoId}, user : {<<"b">>}, text : {<<"h">>},
     createdAt : {NoCreatedAt}, replyToId : ReplyInputs, chatId : ChatIds]
\* inbound 'message' events of the reconciliation specification. The server
\* echoes the sends of this user, in its own spelling of the name, with or
\* without their token under the ids it gave them; it relays what this user
\* sent from elsewhere under the name as typed, and the messages of another
\* user, which carry ids of their own
SyncEvents ==
    [id : {ServerId(1), ServerId(2)}, tempId : {LocalId(1)},
     user : {<<"a", " ">>}, text : {<<"h">>}, createdAt : {NoCreatedAt, Iso(0)},
     replyToId : ReplyInputs, chatId : {"c1"}]
    \cup
    [id : {ServerId(1), ServerId(2)}, tempId : {NoId},
     user : {<<"a", " ">>}, text : {<<"h">>, <<"y">>}, createdAt : {NoCreatedAt, Iso(0)},
     replyToId : ReplyInputs, chatId : {"c1"}]
    \cup
    [id : {ServerId(2)}, tempId : {NoId}, user : {<<"A">>},
     text : {<<"h">>}, createdAt : {NoCreatedAt}, replyToId : ReplyInputs,
     chatId : {"c1"}]
    \cup
    [id : {ServerId(3)}, tempId : {NoId}, user : {<<"b">>},
     text : {<<"h">>}, createdAt : {NoCreatedAt, Iso(0)}, replyToId : ReplyInputs,
     chatId : ChatIds]
\* the reaction mappings of an inbound 'reactionUpdated': for some of the
\* symbols, the users who reacted
ReactorLists == {<<<<"b">>>>, <<<<"A">>>>, <<<<"b">>, <<"A">>>>}
ReactionInputs == UNION {[keys -> ReactorLists] : keys \in SUBSET Emojis}

\* ------------------------------------------------------------ specification
\* the state after the first render and its effects, for settings read from
\* localStorage
Init ==
    \E s \in SettingsInputs :
        /\ settings = [s EXCEPT !.username = Trim(s.username)]
        /\ chats = <<>>
        /\ activeChatId = NoChat
        /\ histPending = {}
        /\ demoTimers = 0
        /\ now = DupWindow
        /\ torn = NoSocket
        /\ op = "init"
        /\ out = <<>>
        /\ IF s.isDemoMode
           THEN /\ status = CONNECTED
                /\ socket = "null" /\ socketConnected = FALSE /\ listening = FALSE
                /\ messages = <<Message(LocalId(1), DEMO_ACTIVE, SYSTEM, DupWindow, FALSE, TRUE,
                                        NoId, NoChat, NoReactions)>>
                /\ chatsPending = {[hadActive |-> FALSE]}
           ELSE /\ status = CONNECTING
                /\ socket = "set" /\ socketConnected = FALSE /\ listening = TRUE
                /\ messages = <<>>
                /\ chatsPending = {}

\* the session: connecting, switching, loading, sending and the dispatcher
\* operations, with few inbound events
Next ==
    \/ \E c \in ChatIds : SetActiveChatId(c)
    \/ \E text \in TextInputs, r \in ReplyInputs : SendMessage(text, r)
    \/ \E caption \in CaptionInputs, r \in ReplyInputs : SendMediaMessage(caption, r)
    \/ DemoReply
    \/ EditMessage(LocalId(1), <<"y">>)
    \/ DeleteMessage(LocalId(1))
    \/ CreateChat
    \/ ToggleReaction(LocalId(1), "+")
    \/ \E i \in {1} \cap DOMAIN messages : ForwardMessage(messages[i], "c2")
    \/ OnConnect
    \/ OnConnectError
    \/ OnDisconnect
    \/ \E data \in SessionEvents : OnMessage(data)
    \/ OnMessageDeleted(ServerId(1))
    \/ \E f \in histPending, ok \in BOOLEAN : HistoryLoaded(f, ok)
    \/ \E p \in chatsPending, ok \in BOOLEAN, data \in Directories : FetchChatsDone(p, ok, data)
    \/ \E s \in SettingsInputs : SaveSettings(s)

Spec == Init /\ [][Next]_vars

\* reconciliation: a connected session with "c1" active, its history fetch
\* failed, the directory loaded; sends, deletes and every inbound 'message'
InitSync ==
    /\ settings = Settings(<<"A">>, "u1", FALSE)
    /\ chats = <<"c1", "c2">>
    /\ activeChatId = "c1"
    /\ histPending = {}
    /\ chatsPending = {}
    /\ demoTimers = 0
    /\ now = DupWindow
    /\ torn = NoSocket
    /\ op = "fetchChatsDone"
    /\ out = <<>>
    /\ status = CONNECTED
    /\ socket = "set" /\ socketConnected = TRUE /\ listening = TRUE
    /\ messages = <<>>

NextSync ==
    \/ \E text \in TextInputs, r \in ReplyInputs : SendMessage(text, r)
    \/ \E caption \in CaptionInputs, r \in ReplyInputs : SendMediaMessage(caption, r)
    \/ \E data \in SyncEvents : OnMessage(data)
    \/ \E id \in {LocalId(1), ServerId(1)} : DeleteMessage(id)

SpecSync == InitSync /\ [][NextSync]_vars

\* inbound 'message' events of the duplicate-check specification: relayed
\* messages of other users, stamped by the server's clock (which may be ahead
\* of Date.now()) or not stamped, and one that repeats the connect notice
DupEvents ==
    [id : ServerIds, tempId : {NoId}, user : {<<"b">>, <<"b", " ">>},
     text : {<<"h">>, <<"y">>},
     createdAt : {NoCreatedAt, Iso(0), Iso(2 * DupWindow)},
     replyToId : ReplyInputs, chatId : {"c1"}]
    \cup
    [id : {ServerId(1)}, tempId : {NoId}, user : {SYSTEM}, text : {CONNECTED_TO},
     createdAt : {NoCreatedAt}, replyToId : ReplyInputs, chatId : {"c1"}]

\* the duplicate check: a connected session whose directory fetch failed, so
\* that no chat is active and the connect notice is in the log
InitDup ==
    /\ settings = Settings(<<"A">>, "u1", FALSE)
    /\ chats = <<>>
    /\ activeChatId = NoChat
    /\ histPending = {}
    /\ chatsPending = {}
    /\ demoTimers = 0
    /\ now = DupWindow
    /\ torn = NoSocket
    /\ op = "fetchChatsDone"
    /\ out = <<>>
    /\ status = CONNECTED
    /\ socket = "set" /\ socketConnected = TRUE /\ listening = TRUE
    /\ messages = <<Message(LocalId(1), CONNECTED_TO, SYSTEM, DupWindow, FALSE, TRUE,
                            NoId, NoChat, NoReactions)>>

NextDup ==
    \/ \E data \in DupEvents : OnMessage(data)
    \/ \E id \in {LocalId(1)} \cup ServerIds : OnMessageDeleted(id)

SpecDup == InitDup /\ [][NextDup]_vars

\* the deltas: a connected session with "c1" active and its history loaded;
\* reactions are toggled and edit, delete and reaction events arrive, for an
\* entry of the log and for an id that no entry carries
InitDelta ==
    /\ settings = Settings(<<"A">>, "u1", FALSE)
    /\ chats = <<"c1", "c2">>
    /\ activeChatId = "c1"
    /\ histPending = {}
    /\ chatsPending = {}
    /\ demoTimers = 0
    /\ now = DupWindow
    /\ torn = NoSocket
    /\ op = "historyLoaded"
    /\ out = <<>>
    /\ status = CONNECTED
    /\ socket = "set" /\ socketConnected = TRUE /\ listening = TRUE
    /\ messages = LoadedMessages(ServerHistory("c1"), <<"A">>)

\* the ids the deltas name: the first entry of the history, and one of another chat
DeltaIds == {ServerId(1), ServerId(3)}

\* the ids the edits name: the entry of this user and the entry of another
\* user in the history, and one of another chat
EditIds == {ServerId(1), ServerId(2), ServerId(3)}

\* the texts an edit may carry: the text of either entry of the history
EditTexts == {<<"y">>, <<"h">>}

NextDelta ==
    \/ \E id \in DeltaIds, e \in Emojis : ToggleReaction(id, e)
    \/ \E id \in DeltaIds, r \in ReactionInputs : OnReactionUpdated(id, r)
    \/ \E id \in EditIds, text \in EditTexts : OnMessageUpdated(id, text, Iso(now))
    \/ \E id \in DeltaIds : OnMessageDeleted(id)

SpecDelta == InitDelta /\ [][NextDelta]_vars

\* what the settings panel may save in the session specification: another
\* name, the same name with a blank after it, another endpoint, demo mode
SessionSettings ==
    {Settings(u, url, d) : u \in {<<"A">>, <<"A", " ">>, <<"b">>},
                           url \in {"u1", "u2"}, d \in BOOLEAN}

\* the life of the session: settings are saved, the socket connects, fails
\* and disconnects, messages arrive and the fetches complete
NextSession ==
    \/ \E s \in SessionSettings : SaveSettings(s)
    \/ OnConnect
    \/ OnConnectError
    \/ OnDisconnect
    \/ \E data \in SessionEvents : OnMessage(data)
    \/ \E f \in histPending, ok \in BOOLEAN : HistoryLoaded(f, ok)
    \/ \E p \in chatsPending, ok \in BOOLEAN, data \in Directories : FetchChatsDone(p, ok, data)

SpecSession == Init /\ [][NextSession]_vars

\* the retries: a connected session with "c1" active; the socket disconnects,
\* attempts fail, the settings are saved and the history fetches complete.
\* socket.io is created with reconnection: true and reconnectionAttempts:
\* Infinity, so while the socket is down an attempt is always pending; the
\* fairness condition is the endpoint accepting one of them
NextRetry ==
    \/ \E s \in SessionSettings : SaveSettings(s)
    \/ OnConnect
    \/ OnConnectError
    \/ OnDisconnect
    \/ \E f \in histPending, ok \in BOOLEAN : HistoryLoaded(f, ok)

SpecRetry == InitDelta /\ [][NextRetry]_vars /\ WF_vars(OnConnect)

\* the chat the server creates on 'createChat'
NewChats == {"c3"}

\* the directory: the session connects and disconnects, the directory is
\* fetched, chats are created, selected and written to, and 'chatCreated'
\* announces a chat, once or again
NextDirectory ==
    \/ OnConnect
    \/ OnDisconnect
    \/ CreateChat
    \/ \E c \in NewChats : OnChatCreated(c)
    \/ \E c \in ChatIds \cup NewChats : SetActiveChatId(c)
    \/ \E text \in TextInputs, r \in ReplyInputs : SendMessage(text, r)
    \/ \E data \in SessionEvents : OnMessage(data)
    \/ \E f \in histPending, ok \in BOOLEAN : HistoryLoaded(f, ok)
    \/ \E p \in chatsPending, ok \in BOOLEAN, data \in Directories : FetchChatsDone(p, ok, data)

SpecDirectory == Init /\ [][NextDirectory]_vars

\* the demo session: texts and media are sent, the reply timers fire, the
\* settings switch between demo mode and the endpoint, the socket connects and
\* the fetches complete. A timer set with setTimeout is never cleared, so its
\* callback runs: the fairness condition is on the reply
NextDemo ==
    \/ \E text \in TextInputs, r \in ReplyInputs : SendMessage(text, r)
    \/ \E caption \in CaptionInputs, r \in ReplyInputs : SendMediaMessage(caption, r)
    \/ DemoReply
    \/ \E s \in SettingsInputs : SaveSettings(s)
    \/ OnConnect
    \/ \E f \in histPending, ok \in BOOLEAN : HistoryLoaded(f, ok)
    \/ \E p \in chatsPending, ok \in BOOLEAN, data \in Directories : FetchChatsDone(p, ok, data)

SpecDemo == Init /\ [][NextDemo]_vars /\ WF_vars(DemoReply)

\* inbound 'message' events that lack a field: the id, the sender or the text
MalformedEvents ==
    [id : {NoId}, tempId : {NoId}, user : {<<"b">>}, text : {<<"h">>},
     createdAt : {NoCreatedAt, Iso(0)}, replyToId : ReplyInputs, chatId : {"c1", NoChat}]
    \cup
    [id : {ServerId(1)}, tempId : {NoId}, user : {NoText}, text : {<<"h">>},
     createdAt : {NoCreatedAt}, replyToId : ReplyInputs, chatId : {"c1"}]
    \cup
    [id : {ServerId(2)}, tempId : {NoId}, user : {<<"b">>}, text : {NoText},
     createdAt : {NoCreatedAt}, replyToId : ReplyInputs, chatId : {"c1"}]

\* malformed events: a connected session with "c1" active receives events
\* that lack a field among well-formed ones, sends and remote deletes
NextMalformed ==
    \/ \E data \in MalformedEvents : OnMessage(data)
    \/ \E data \in SessionEvents : OnMessage(data)
    \/ \E text \in TextInputs, r \in ReplyInputs : SendMessage(text, r)
    \/ \E id \in {ServerId(1), ServerId(2)} : OnMessageDeleted(id)
    \/ OnDisconnect
    \/ OnConnect

SpecMalformed == InitSync /\ [][NextMalformed]_vars

\* deletes: a connected session with "c1" active; the user sends, deletes own
\* entries of the log, and the server's 'message' events arrive
NextDelete ==
    \/ \E text \in TextInputs, r \in ReplyInputs : SendMessage(text, r)
    \/ \E i \in DOMAIN messages : messages[i].isMe /\ DeleteMessage(messages[i].id)
    \/ \E data \in SyncEvents : OnMessage(data)

SpecDelete == InitSync /\ [][NextDelete]_vars

\* ------------------------------------------------------------------ claims
\* an entry that this client originated and that carries a local token still
Pending(msg) == msg.isMe /\ ~IncludesHyphen(msg.id)

\* no two entries of the log carry the same id
UniqueIds(log) == \A i, j \in 1..Len(log) : i # j => log[i].id # log[j].id

\* every entry of log is still in log2 at its position, as the same message
\* (its id may have been rewritten)
Kept(log, log2) ==
    /\ Len(log2) >= Len(log)
    /\ \A i \in 1..Len(log) :
           /\ log2[i].sender = log[i].sender
           /\ log2[i].isMe = log[i].isMe
           /\ log2[i].isSystem = log[i].isSystem

\* the steps of the 'message' handler for an event without a token that is
\* not ignored
TokenlessOps == {"message:echo:text", "message:append", "message:duplicate"}

\* the steps of the 'message' handler
MessageOps == {"message:ignored", "message:echo:token", "message:echo:text",
               "message:append", "message:duplicate"}

\* echoes that carry a token and a creation time
TokenEchoes == {d \in SyncEvents : d.tempId # NoId /\ d.createdAt # NoCreatedAt}

\* C1: when the log holds an entry whose id is the token T and a 'message'
\* event for the active chat arrives with tempId T, id S and createdAt C, the
\* log keeps its length, the entry at that position then has id S and
\* timestamp C with its text unchanged, and no entry with id T remains.
C1_TokenReconciliation ==
    [][\A data \in TokenEchoes :
          \A i \in DOMAIN messages :
              (/\ op' \in MessageOps
               /\ messages[i].id = data.tempId
               /\ data.chatId = activeChatId
               /\ OnMessage(data))
              => /\ Len(messages') = Len(messages)
                 /\ messages'[i].id = data.id
                 /\ messages'[i].timestamp = DateGetTime(data.createdAt)
                 /\ messages'[i].text = messages[i].text
                 /\ data.tempId \notin Ids(messages')]_vars

\* C1 witness: an echo with a token has been reconciled: an own entry with the
\* media caption, which no event repeats, now carries a server id and the
\* creation time of the echo
C1_Witness ==
    /\ op = "message:echo:token"
    /\ \E i \in DOMAIN messages :
           /\ messages[i].isMe
           /\ messages[i].text = MEDIA_CAPTION
           /\ IncludesHyphen(messages[i].id)
           /\ messages[i].timestamp = 0

\* C2: in every reachable state no two entries of the message log have the
\* same id.
C2_UniqueIds == UniqueIds(messages)

\* C3: the completion of a history fetch that was started for a chat which is
\* no longer the active one does not change the log.
C3_StaleHistoryDiscarded ==
    [][\A f \in histPending, ok \in BOOLEAN :
          (/\ op' = "historyLoaded"
           /\ f.chatId # activeChatId
           /\ HistoryLoaded(f, ok))
          => messages' = messages]_vars

\* C4: a 'message' event tagged for a chat other than the active one changes
\* neither the log nor the directory nor anything else the client holds, so
\* nothing of it is left that could enter the log later.
C4_ConversationIsolation ==
    [][\A data \in SessionEvents :
          (/\ op' \in MessageOps
           /\ data.chatId # NoChat
           /\ activeChatId # NoChat
           /\ data.chatId # activeChatId
           /\ OnMessage(data))
          => UNCHANGED <<messages, chats, activeChatId, status, socket, socketConnected,
                         listening, settings, histPending, chatsPending, demoTimers,
                         now, torn>>]_vars

\* C4 witness: an event for another chat has just been ignored while "c1" was
\* active and its log held an entry
C4_Witness ==
    /\ op = "message:ignored"
    /\ activeChatId = "c1"
    /\ messages # <<>>

\* events without a token
TokenlessEvents == {d \in SyncEvents : d.tempId = NoId}

\* C5: the second delivery of a 'message' event, whose id and text an entry
\* of the log already carries, changes neither the log nor the directory.
C5_IdempotentDelivery ==
    [][\A data \in TokenlessEvents :
          (/\ op' \in MessageOps
           /\ \E i \in DOMAIN messages :
                  messages[i].id = data.id /\ messages[i].text = data.text
           /\ OnMessage(data))
          => UNCHANGED <<messages, chats>>]_vars

\* echoes without a token, for the active chat
FallbackEchoes == {d \in SyncEvents : d.tempId = NoId /\ d.chatId = "c1"}

\* the sender of the event is the current user after trim and lower-casing
FromCurrentUser(data) ==
    ToLowerCase(Trim(data.user)) = ToLowerCase(Trim(settings.username))

\* the fallback rewrites every pending own entry with the text of the event
ReconciledInPlace(data) ==
    /\ Len(messages') = Len(messages)
    /\ \A i \in DOMAIN messages :
           (Pending(messages[i]) /\ messages[i].text = data.text)
           => /\ messages'[i].id = data.id
              /\ messages'[i].timestamp = IF data.createdAt # NoCreatedAt
                                          THEN DateGetTime(data.createdAt)
                                          ELSE messages[i].timestamp
              /\ messages'[i].text = messages[i].text

\* the log has grown by one entry built from the event
AppendedFrom(data) ==
    /\ Len(messages') = Len(messages) + 1
    /\ SubSeq(messages', 1, Len(messages)) = messages
    /\ messages'[Len(messages')].id = data.id
    /\ messages'[Len(messages')].text = data.text
    /\ messages'[Len(messages')].sender = data.user
    /\ ~messages'[Len(messages')].isMe

\* an entry of the log repeats the event: the same id, or the same text and
\* sender within the duplicate window
Repeats(data) ==
    \/ data.id \in Ids(messages)
    \/ \E i \in DOMAIN messages :
           /\ messages[i].text = data.text
           /\ messages[i].sender = data.user
           /\ messages[i].timestamp > now - DupWindow
           /\ ~messages[i].isSystem

\* C6 as stated: an echo without a token from the current user whose text is
\* that of a pending own entry rewrites the entry in place; if the text
\* differs from every entry with a local id, a new entry is appended.
C6_Original ==
    [][\A data \in FallbackEchoes :
          (/\ op' \in TokenlessOps
           /\ data.chatId = activeChatId
           /\ FromCurrentUser(data)
           /\ OnMessage(data))
          => IF \E i \in DOMAIN messages :
                    ~IncludesHyphen(messages[i].id) /\ messages[i].text = data.text
             THEN ReconciledInPlace(data)
             ELSE AppendedFrom(data)]_vars

\* C6 amended: an echo without a token from the current user (after trim and
\* lower-casing) whose text is that of a pending own entry rewrites the id of
\* the entry, and its timestamp when the echo carries a creation time, in
\* place without appending; if the text differs from every entry with a local
\* id the event is a remote insert: it is appended unless an entry with its id
\* or a content duplicate within the window is in the log, and then the log
\* stays as it is.
C6_FallbackReconciliation ==
    [][\A data \in FallbackEchoes :
          (/\ op' \in TokenlessOps
           /\ data.chatId = activeChatId
           /\ FromCurrentUser(data)
           /\ OnMessage(data))
          => IF \E i \in DOMAIN messages :
                    ~IncludesHyphen(messages[i].id) /\ messages[i].text = data.text
             THEN ReconciledInPlace(data)
             ELSE IF Repeats(data)
             THEN messages' = messages
             ELSE AppendedFrom(data)]_vars

\* C6 witness: an echo without a token has just reconciled an own entry, which
\* now carries a server id
C6_Witness ==
    /\ op = "message:echo:text"
    /\ \E i \in DOMAIN messages :
           /\ messages[i].isMe
           /\ IncludesHyphen(messages[i].id)
           /\ messages[i].text = <<"h">>

\* C7: right after the active chat changes from one chat to another, in every
\* connection status and in demo mode, the log holds no entry that was in the
\* log before.
C7_SwitchClearsLog ==
    [][(activeChatId # NoChat /\ activeChatId' # activeChatId)
       => \A i \in DOMAIN messages, j \in DOMAIN messages' :
              messages'[j] # messages[i]]_vars

\* the steps that delete entries
DeleteOps == {"deleteMessage", "messageDeleted"}

\* the steps in which the active-chat effect or its fetch may empty or
\* replace the log
ReloadOps == {"connect", "saveSettings", "historyLoaded"}

SendOps == {"sendMessage", "sendMediaMessage", "forwardMessage"}

\* C9: with demo mode off and the socket not connected, sendMessage with a
\* non-empty trimmed text appends one own entry and then exactly one system
\* notice and emits nothing; an outbound 'message' is emitted only by a send
\* or forward that runs while the socket is connected, and a send emits it for
\* the entry it has just appended, so nothing is sent later for an earlier one.
C9_SendWhileDisconnected ==
    [][/\ \A text \in TextInputs, r \in ReplyInputs :
              (/\ op' = "sendMessage"
               /\ Trim(text) # <<>>
               /\ ~settings.isDemoMode
               /\ ~(socket = "set" /\ socketConnected)
               /\ SendMessage(text, r))
              => /\ Len(messages') = Len(messages) + 2
                 /\ SubSeq(messages', 1, Len(messages)) = messages
                 /\ messages'[Len(messages) + 1].isMe
                 /\ ~messages'[Len(messages) + 1].isSystem
                 /\ messages'[Len(messages) + 1].text = Trim(text)
                 /\ messages'[Len(messages) + 2].isSystem
                 /\ messages'[Len(messages) + 2].text = MSG_NOT_SENT
                 /\ out' = <<>>
       /\ \A k \in DOMAIN out' :
              out'[k].type = "message"
              => /\ op' \in SendOps
                 /\ socket = "set" /\ socketConnected
                 /\ op' # "forwardMessage"
                    => /\ Len(messages') = Len(messages) + 1
                       /\ out'[k].payload.tempId = messages'[Len(messages')].id]_vars

\* C9 witness: a send has just failed on a socket that is not connected; the
\* log ends with the own entry and the notice
C9_Witness ==
    /\ op = "sendMessage"
    /\ ~settings.isDemoMode
    /\ ~socketConnected
    /\ Len(messages) = 2
    /\ messages[1].isMe /\ messages[1].text = <<"h">>
    /\ messages[2].isSystem /\ messages[2].text = MSG_NOT_SENT
    /\ out = <<>>

\* the dispatcher operations that need a live connection
DispatcherOps == {"sendMessage", "sendMediaMessage", "editMessage", "deleteMessage",
                  "toggleReaction", "forwardMessage", "createChat"}

\* C10: every dispatcher operation invoked while the session is not connected
\* and demo mode is off appends a system notice to the log.
C10_NoticeWhenDisconnected ==
    [][(op' \in DispatcherOps /\ ~settings.isDemoMode /\ status # CONNECTED)
       => /\ Len(messages') > Len(messages)
          /\ messages'[Len(messages')].isSystem]_vars

\* the outbound events that need a connected session
GuardedEmits == {"message", "editMessage", "deleteMessage", "toggleReaction",
                 "createChat", "joinChat"}

\* the local operations that rewrite the log before they emit
LogEditOps == {"editMessage", "deleteMessage", "toggleReaction"}

\* C11: an outbound 'message', 'editMessage', 'deleteMessage',
\* 'toggleReaction', 'createChat' or 'joinChat' is emitted only by a step that
\* leaves the session connected (socket connected, status Connected, demo mode
\* off), and an edit, delete or reaction attempted while the socket is not
\* connected emits nothing and leaves the log unchanged.
C11_NoEmitWithoutSession ==
    [][/\ \A k \in DOMAIN out' :
              out'[k].type \in GuardedEmits
              => /\ socket' = "set" /\ socketConnected' /\ listening'
                 /\ status' = CONNECTED
                 /\ ~settings'.isDemoMode
       /\ (op' \in LogEditOps /\ ~(socket = "set" /\ socketConnected))
          => (messages' = messages /\ out' = <<>>)]_vars

\* C11 witness: an edit of an own entry has just been attempted on a socket
\* that is not connected; the entry still has its text
C11_Witness ==
    /\ op = "editMessage"
    /\ ~socketConnected
    /\ ~settings.isDemoMode
    /\ out = <<>>
    /\ \E i \in DOMAIN messages :
           /\ messages[i].id = LocalId(1)
           /\ messages[i].isMe
           /\ messages[i].text = <<"h">>

\* the directory without chat c, in order
RECURSIVE Others(_, _)
Others(dir, c) ==
    IF dir = <<>> THEN <<>>
    ELSE IF Head(dir) = c THEN Others(Tail(dir), c)
    ELSE <<Head(dir)>> \o Others(Tail(dir), c)

\* chat c of the directory dir is at the front of dir2, and dir2 is dir with
\* c moved: nothing dropped or doubled, the other chats in their order
AtFront(dir, dir2, c) ==
    /\ dir2 # <<>>
    /\ dir2[1] = c
    /\ Len(dir2) = Len(dir)
    /\ Others(dir2, c) = Others(dir, c)

InDirectory(c) == \E i \in DOMAIN chats : chats[i] = c

\* C12: every appended inbound message for a chat C of the directory, every
\* emitted text or media send in the active chat C, and every emitted forward
\* to a target chat C leaves C at the front of the directory, the other chats
\* keeping their relative order.
C12_DirectoryReordering ==
    [][/\ \A data \in SessionEvents :
              (/\ op' = "message:append"
               /\ InDirectory(data.chatId)
               /\ OnMessage(data))
              => AtFront(chats, chats', data.chatId)
       /\ (/\ op' \in {"sendMessage", "sendMediaMessage"}
           /\ out' # <<>>
           /\ InDirectory(activeChatId))
          => AtFront(chats, chats', activeChatId)
       /\ (/\ op' = "forwardMessage"
           /\ out' # <<>>
           /\ InDirectory(out'[1].payload.chatId))
          => AtFront(chats, chats', out'[1].payload.chatId)]_vars

\* C13: a 'message' event of another user whose id is not in the log is
\* rejected exactly when the log holds a non-system entry with the same text
\* and the same sender whose timestamp lies in the 10 seconds before the
\* current time; otherwise it is appended at the end of the log.
C13_ContentDuplicate ==
    [][\A data \in DupEvents :
          (/\ op' \in {"message:append", "message:duplicate"}
           /\ data.id \notin Ids(messages)
           /\ OnMessage(data))
          => IF \E i \in DOMAIN messages :
                    /\ ~messages[i].isSystem
                    /\ messages[i].text = data.text
                    /\ messages[i].sender = data.user
                    /\ messages[i].timestamp > now - DupWindow
                    /\ messages[i].timestamp <= now
             THEN messages' = messages
             ELSE AppendedFrom(data)]_vars

\* a reaction mapping as a mapping from symbols to sets of users
AsSets(reactions) ==
    [e \in DOMAIN reactions |-> {reactions[e][k] : k \in 1..Len(reactions[e])}]

\* C14: one toggleReaction(m, e) on a connected session adds the user to the
\* reactors of e when the user is not among them and removes the user
\* otherwise, removing the key e when nobody is left, and leaves the other
\* symbols alone; a second toggle by the same user then gives back the
\* symbol-to-reactor-set mapping m had before the first.
C14_ToggleInvolution ==
    [][\A id \in DeltaIds, e \in Emojis :
          (/\ op' = "toggleReaction"
           /\ socket = "set" /\ socketConnected
           /\ ToggleReaction(id, e))
          => \A i \in DOMAIN messages :
                 messages[i].id = id
                 => LET r == AsSets(messages[i].reactions)
                        r2 == AsSets(messages'[i].reactions)
                        u == settings.username
                    IN  /\ \A x \in Emojis \ {e} :
                               /\ x \in DOMAIN r2 <=> x \in DOMAIN r
                               /\ x \in DOMAIN r => r2[x] = r[x]
                        /\ IF e \in DOMAIN r /\ u \in r[e]
                           THEN IF r[e] = {u}
                                THEN e \notin DOMAIN r2
                                ELSE e \in DOMAIN r2 /\ r2[e] = r[e] \ {u}
                           ELSE /\ e \in DOMAIN r2
                                /\ r2[e] = (IF e \in DOMAIN r THEN r[e] ELSE {}) \cup {u}
                        /\ AsSets(Toggled(messages'[i].reactions, e, u)) = r]_vars

\* C14 witness: a toggle of "+" has just removed the key "+" from the mapping
\* of the first entry, which still has the key "-"
C14_Witness ==
    /\ op = "toggleReaction"
    /\ out # <<>>
    /\ out[1].payload.emoji = "+"
    /\ out[1].payload.messageId = ServerId(1)
    /\ \E i \in DOMAIN messages :
           /\ messages[i].id = ServerId(1)
           /\ DOMAIN messages[i].reactions = {"-"}

\* the steps of the delta handlers
DeltaOps == {"messageUpdated", "messageDeleted", "reactionUpdated"}

\* C15: a 'messageUpdated', 'messageDeleted' or 'reactionUpdated' event whose
\* id no entry of the log carries leaves the log, the directory, the
\* connection state and everything else the client holds unchanged; no notice
\* is appended and nothing is emitted.
C15_UnknownIdNoOp ==
    [][\A id \in DeltaIds :
          (/\ op' \in DeltaOps
           /\ \A i \in DOMAIN messages : messages[i].id # id
           /\ \/ \E text \in EditTexts : OnMessageUpdated(id, text, Iso(now))
              \/ OnMessageDeleted(id)
              \/ \E r \in ReactionInputs : OnReactionUpdated(id, r))
          => /\ UNCHANGED <<messages, chats, activeChatId, status, socket,
                            socketConnected, listening, settings, histPending,
                            chatsPending, demoTimers, now, torn>>
             /\ out' = <<>>]_vars

\* C15 witness: a 'messageDeleted' has just been handled and both entries of
\* the history are still in the log, so it named the id of another chat
C15_Witness ==
    /\ op = "messageDeleted"
    /\ Len(messages) = 2
    /\ messages[1].id = ServerId(1)
    /\ messages[2].id = ServerId(2)

\* the steps of the socket's event handlers
SocketEventOps == MessageOps \cup DeltaOps \cup
                  {"connect", "connect_error", "disconnect", "chatCreated"}

\* the connection effect runs again: endpoint, username or demo flag changed
SessionChanged ==
    \/ settings'.serverUrl # settings.serverUrl
    \/ settings'.username # settings.username
    \/ settings'.isDemoMode # settings.isDemoMode

\* C16: at most one socket has listeners attached: the socket that a change of
\* endpoint, username or demo flag replaces is left without listeners and
\* closed in the step that creates the new one, the new one starts with its
\* listeners and not connected, and a socket event is handled only for the
\* socket of the current session, never in demo mode.
C16_AtMostOneLiveSession ==
    [][/\ ~torn'.listening /\ ~torn'.connected
       /\ SessionChanged
          => /\ op' = "saveSettings"
             /\ ~socketConnected'
             /\ listening' = ~settings'.isDemoMode
             /\ ~settings'.isDemoMode => socket' = "set"
       /\ op' \in SocketEventOps
          => /\ socket = "set" /\ listening
             /\ ~settings.isDemoMode
             /\ UNCHANGED <<settings, torn>>]_vars

\* C16 witness: the settings were saved with another username while the
\* session was connected (its connect notice is in the log): the new socket is
\* connecting and the old one is torn down
C16_Witness ==
    /\ op = "saveSettings"
    /\ settings.username = <<"b">>
    /\ status = CONNECTING
    /\ socket = "set" /\ listening /\ ~socketConnected
    /\ torn = NoSocket
    /\ messages # <<>>
    /\ messages[1].text = CONNECTED_TO

\* C17: saving settings whose endpoint, demo flag and trimmed username are
\* those of the current session creates no socket, emits nothing (no 'join'),
\* appends no notice and changes neither the connection state nor the log nor
\* the directory nor any fetch in flight.
C17_ConnectIdempotent ==
    [][\A s \in SessionSettings :
          (/\ op' = "saveSettings"
           /\ s.serverUrl = settings.serverUrl
           /\ s.isDemoMode = settings.isDemoMode
           /\ Trim(s.username) = settings.username
           /\ SaveSettings(s))
          => /\ out' = <<>>
             /\ UNCHANGED <<messages, chats, activeChatId, status, socket,
                            socketConnected, listening, settings, histPending,
                            chatsPending, demoTimers, now, torn>>]_vars

\* C17 witness: settings have just been saved and the socket is still
\* connected, with the connect notice of the session in the log
C17_Witness ==
    /\ op = "saveSettings"
    /\ status = CONNECTED
    /\ socket = "set" /\ socketConnected /\ listening
    /\ ~settings.isDemoMode
    /\ messages # <<>>
    /\ messages[Len(messages)].text = CONNECTED_TO

\* C18: once a session has left Connected, a transition of the status into
\* Connected is directly preceded by Connecting, and a failed attempt leaves
\* the status Error or Connecting. (Demo mode, which has no attempts, and the
\* status Error, which the first attempt reaches without the session having
\* been connected, are left out of the first half.)
C18_ReconnectThroughConnecting ==
    [][/\ (/\ status' = CONNECTED
           /\ status # CONNECTED
           /\ status # ERROR
           /\ ~settings'.isDemoMode)
          => status = CONNECTING
       /\ op' = "connect_error" => status' \in {ERROR, CONNECTING}]_vars

\* the 'connect' handler has just run and has emitted 'join'
Rejoined ==
    /\ op = "connect"
    /\ status = CONNECTED
    /\ \E i \in 1..Len(out) : out[i].type = "join"

\* C19: Error is not terminal. From the status Error or Disconnected of a
\* session against an endpoint, if the endpoint eventually accepts a
\* connection, the status becomes Connected and 'join' is emitted again
\* (unless the user turns the session into a demo session meanwhile).
C19_ErrorNotTerminal ==
    (status \in {ERROR, DISCONNECTED} /\ ~settings.isDemoMode)
        ~> (Rejoined \/ settings.isDemoMode)

\* an attempt of a session that had been connected has failed and the socket
\* is still retrying
C19_Witness ==
    /\ op = "connect_error"
    /\ status = ERROR
    /\ ~settings.isDemoMode
    /\ socket = "set" /\ listening /\ ~socketConnected
    /\ torn = NoSocket
    /\ activeChatId = "c1"

\* C20: when a history fetch for the active chat succeeds, the log becomes
\* exactly the fetched rows in reversed order, whatever the log held when the
\* fetch completed.
C20_HistoryReplacesLog ==
    [][\A f \in histPending :
          (/\ op' = "historyLoaded"
           /\ f.chatId = activeChatId
           /\ HistoryLoaded(f, TRUE))
          => LET fetched == ServerHistory(f.chatId)
                 n == Len(fetched)
             IN  /\ Len(messages') = n
                 /\ \A i \in 1..n :
                       /\ messages'[i].id = fetched[n + 1 - i].id
                       /\ messages'[i].text = fetched[n + 1 - i].content
                       /\ messages'[i].sender = fetched[n + 1 - i].username
                       /\ messages'[i].chatId = fetched[n + 1 - i].chatId
                       /\ messages'[i].timestamp = DateGetTime(fetched[n + 1 - i].createdAt)
                       /\ ~messages'[i].isSystem]_vars

\* the history of "c2" has replaced the log after a message for "c2" had been
\* sent or had arrived while "c2" was active, which moved "c2" to the front of
\* the directory and added an entry to the log
C20_Witness ==
    /\ op = "historyLoaded"
    /\ activeChatId = "c2"
    /\ chats = <<"c2", "c1">>
    /\ \A f \in histPending : f.chatId # "c2"
    /\ Len(messages) = 1
    /\ messages[1].id = ServerId(3)
    /\ messages[1].chatId = "c2"

\* C21: a failed history fetch for the active chat leaves the log as it is
\* (empty, when nothing arrived since the fetch was started, because the step
\* that starts a fetch empties the log) and starts no fetch; a fetch is
\* started only in a step that changes the active chat, the status or the
\* settings.
C21_HistoryFailureNotRetried ==
    [][/\ \A f \in histPending :
             (/\ op' = "historyLoaded"
              /\ f.chatId = activeChatId
              /\ HistoryLoaded(f, FALSE))
             => /\ messages' = messages
                /\ histPending' = histPending \ {f}
                /\ out' = <<>>
       /\ (histPending' \ histPending # {})
             => /\ messages' = <<>>
                /\ \/ activeChatId' # activeChatId
                   \/ status' # status
                   \/ settings' # settings]_vars

\* the fetch for the active chat has failed: the log is empty and no fetch is
\* pending
C21_Witness ==
    /\ op = "historyLoaded"
    /\ status = CONNECTED
    /\ activeChatId = "c1"
    /\ messages = <<>>
    /\ histPending = {}

\* C22: the active chat changes only in a step in which the user selects a
\* chat; no socket event, history load or directory fetch changes it.
C22_SelectorOnlyByUser ==
    [][activeChatId' # activeChatId => op' = "setActiveChatId"]_vars

\* the chats of a directory
InDir(dir) == {dir[i] : i \in 1..Len(dir)}

\* C23: createChat changes neither the directory nor the log, and a chat
\* enters the directory only in a 'chatCreated' step or in the completion of a
\* directory fetch.
C23_NoOptimisticDirectoryEntry ==
    [][/\ op' = "createChat" => (chats' = chats /\ messages' = messages)
       /\ InDir(chats') \ InDir(chats) # {}
             => op' \in {"chatCreated", "fetchChatsDone"}]_vars

\* createChat has been emitted on a connected session and the directory holds
\* what it held: the two chats of the server, not the new one
C23_Witness ==
    /\ op = "createChat"
    /\ \E i \in 1..Len(out) : out[i].type = "createChat"
    /\ chats = <<"c1", "c2">>

\* C24: a text or media send that is accepted on a connected session, demo
\* mode off, emits exactly one 'message'; the log of the same step holds one
\* entry more, an own entry at its end, and the tempId of the emitted message
\* is the id of that entry.
C24_TokenAndInsertBeforeEmit ==
    [][(/\ op' \in {"sendMessage", "sendMediaMessage"}
        /\ ~settings.isDemoMode
        /\ socket = "set" /\ socketConnected)
       => /\ Len(out') = 1
          /\ out'[1].type = "message"
          /\ Len(messages') = Len(messages) + 1
          /\ SubSeq(messages', 1, Len(messages)) = messages
          /\ messages'[Len(messages')].isMe
          /\ ~messages'[Len(messages')].isSystem
          /\ out'[1].payload.tempId = messages'[Len(messages')].id
          /\ out'[1].payload.tempId # NoId
          /\ out'[1].payload.text = messages'[Len(messages')].text]_vars

\* a media message has just been sent on a connected session after an earlier
\* entry: the emitted message carries the id of the entry at the end of the log
C24_Witness ==
    /\ op = "sendMediaMessage"
    /\ ~settings.isDemoMode
    /\ socket = "set" /\ socketConnected
    /\ Len(messages) = 2
    /\ Len(out) = 1
    /\ out[1].type = "message"
    /\ out[1].payload.tempId = messages[2].id
    /\ messages[2].isMe

\* C25: with demo mode off a send whose trimmed text is empty changes neither
\* the log nor the directory and emits nothing; with demo mode on every send,
\* also one whose trimmed text is empty, appends an own entry.
C25_EmptySends ==
    [][\A text \in TextInputs, r \in ReplyInputs :
          (/\ op' \in {"sendMessage", "sendMessage:empty"}
           /\ SendMessage(text, r))
          => /\ (~settings.isDemoMode /\ Trim(text) = <<>>)
                   => (messages' = messages /\ chats' = chats /\ out' = <<>>)
             /\ settings.isDemoMode
                   => /\ Len(messages') = Len(messages) + 1
                      /\ messages'[Len(messages')].isMe]_vars

\* the step has appended exactly one entry, which is not a system entry
AppendedOne(own) ==
    /\ Len(messages') = Len(messages) + 1
    /\ SubSeq(messages', 1, Len(messages)) = messages
    /\ messages'[Len(messages')].isMe = own
    /\ ~messages'[Len(messages')].isSystem

C27_IsMeDerivedFromSender ==
    \A i \in DOMAIN messages :
        ~messages[i].isSystem
        => (messages[i].isMe
            <=> ToLowerCase(Trim(messages[i].sender)) = ToLowerCase(Trim(settings.username)))

\* C28: forwardMessage on a connected session leaves the log as it is and
\* emits exactly one 'message': for the target chat, marked as forwarded, with
\* the sender of the source entry as forwardedFrom, the text of the source
\* entry and no tempId.
C28_ForwardLeavesSource ==
    [][\A i \in DOMAIN messages :
          (/\ op' = "forwardMessage"
           /\ socket = "set" /\ socketConnected
           /\ ForwardMessage(messages[i], "c2"))
          => /\ messages' = messages
             /\ Len(out') = 1
             /\ out'[1].type = "message"
             /\ out'[1].payload.chatId = "c2"
             /\ out'[1].payload.isForwarded
             /\ out'[1].payload.forwardedFrom = messages[i].sender
             /\ out'[1].payload.text = messages[i].text
             /\ out'[1].payload.tempId = NoId]_vars

\* an entry of another user in the log of "c1" has just been forwarded to "c2"
\* and is still in the log
C28_Witness ==
    /\ op = "forwardMessage"
    /\ activeChatId = "c1"
    /\ Len(out) = 1
    /\ out[1].type = "message"
    /\ out[1].payload.isForwarded
    /\ out[1].payload.chatId = "c2"
    /\ messages # <<>>
    /\ ~messages[1].isSystem
    /\ ~messages[1].isMe
    /\ out[1].payload.forwardedFrom = messages[1].sender

\* what a delta leaves alone besides the log
DeltaFrame ==
    /\ UNCHANGED <<chats, activeChatId, status, socket, socketConnected, listening,
                   settings, histPending, chatsPending, demoTimers, now, torn>>
    /\ out' = <<>>

\* C29: after 'reactionUpdated' with id m and mapping R, for an entry m of the
\* log, the reactions of m are exactly R, whatever they were before (toggled
\* locally or not); the other fields of m, the other entries and everything
\* else are unchanged.
C29_ReactionDeltaReplaces ==
    [][\A id \in DeltaIds, r \in ReactionInputs :
          (/\ op' = "reactionUpdated"
           /\ \E i \in DOMAIN messages : messages[i].id = id
           /\ OnReactionUpdated(id, r))
          => /\ Len(messages') = Len(messages)
             /\ \A i \in DOMAIN messages :
                   IF messages[i].id = id
                   THEN /\ messages'[i].reactions = r
                        /\ [messages'[i] EXCEPT !.reactions = messages[i].reactions]
                               = messages[i]
                   ELSE messages'[i] = messages[i]
             /\ DeltaFrame]_vars

\* a 'reactionUpdated' has just given the first entry a mapping without this
\* user: "+" by "b" alone
C29_Witness ==
    /\ op = "reactionUpdated"
    /\ \E i \in DOMAIN messages :
           /\ messages[i].id = ServerId(1)
           /\ DOMAIN messages[i].reactions = {"+"}
           /\ messages[i].reactions["+"] = <<<<"b">>>>

\* C30: 'messageUpdated' with id, text and updatedAt, for an entry of the log,
\* own or not, replaces the text of the entry and sets its edited time; its
\* id, position, sender, timestamp and other fields, the other entries and
\* everything else are unchanged.
C30_EditDeltaAppliesToAny ==
    [][\A id \in EditIds, text \in EditTexts :
          (/\ op' = "messageUpdated"
           /\ \E i \in DOMAIN messages : messages[i].id = id
           /\ OnMessageUpdated(id, text, Iso(now)))
          => /\ Len(messages') = Len(messages)
             /\ \A i \in DOMAIN messages :
                   IF messages[i].id = id
                   THEN /\ messages'[i].text = text
                        /\ messages'[i].updatedAt = now
                        /\ [messages'[i] EXCEPT !.text = messages[i].text,
                                                !.updatedAt = messages[i].updatedAt]
                               = messages[i]
                   ELSE messages'[i] = messages[i]
             /\ DeltaFrame]_vars

\* a 'messageUpdated' has just rewritten the entry of the other user, which
\* has the text "y" in the history
C30_Witness ==
    /\ op = "messageUpdated"
    /\ \E i \in DOMAIN messages :
           /\ messages[i].id = ServerId(2)
           /\ ~messages[i].isMe
           /\ messages[i].sender = <<"b">>
           /\ messages[i].text = <<"h">>
           /\ messages[i].updatedAt = now

\* C31: a 'message' event that lacks an id, a sender or a text leaves the
\* log, the directory and the connection status unchanged.
C31_MalformedDropped ==
    [][\A data \in MalformedEvents :
          (op' \in MessageOps /\ OnMessage(data))
          => (messages' = messages /\ chats' = chats /\ status' = status)]_vars

\* C32: a 'disconnect' event sets the status Disconnected and appends exactly
\* one system notice; a 'connect_error' event sets the status Error and leaves
\* the log as it is.
C32_OneNoticePerDisconnect ==
    [][/\ op' = "disconnect"
             => /\ status' = DISCONNECTED
                /\ Len(messages') = Len(messages) + 1
                /\ SubSeq(messages', 1, Len(messages)) = messages
                /\ messages'[Len(messages')].isSystem
                /\ messages'[Len(messages')].text = DISCONNECTED_REASON
       /\ op' = "connect_error"
             => /\ status' = ERROR
                /\ messages' = messages]_vars

\* a reconnect attempt has just failed after a disconnect: the log holds the
\* connect notice and the one disconnect notice
C32_Witness ==
    /\ op = "connect_error"
    /\ status = ERROR
    /\ Len(messages) = 2
    /\ messages[1].text = CONNECTED_TO
    /\ messages[2].isSystem
    /\ messages[2].text = DISCONNECTED_REASON

\* C33: in every reachable state the entries of the log that are not system
\* entries appear in non-decreasing order of their timestamps.
C33_LogChronological ==
    \A i \in DOMAIN messages, j \in DOMAIN messages :
        (i < j /\ ~messages[i].isSystem /\ ~messages[j].isSystem)
        => messages[i].timestamp <= messages[j].timestamp

\* the steps in which the 'message' handler reconciled the event as an echo
EchoOps == {"message:echo:token", "message:echo:text"}

\* C34: when a 'message' event is reconciled as an echo, the log keeps its
\* length and at most one entry changes, and that entry only in its id and its
\* timestamp.
C34_EchoRewritesOne ==
    [][op' \in EchoOps
       => /\ Len(messages') = Len(messages)
          /\ \E i \in DOMAIN messages :
                /\ \A j \in DOMAIN messages \ {i} : messages'[j] = messages[j]
                /\ [messages'[i] EXCEPT !.id = messages[i].id,
                                        !.timestamp = messages[i].timestamp]
                       = messages[i]]_vars

\* C35: after the user has deleted an own entry on a connected session, the
\* echo of the deleted send (the 'message' event whose tempId is the id that
\* was deleted) puts no entry for that message into the log.
C35_DeleteIsFinal ==
    [][\A data \in SyncEvents :
          (/\ op = "deleteMessage"
           /\ op' \in MessageOps
           /\ out # <<>>
           /\ data.tempId = out[1].payload.id
           /\ OnMessage(data))
          => data.id \notin Ids(messages')]_vars

\* C36: in every reachable state no two chats of the directory have the same
\* id.
C36_DirectoryIdsUnique ==
    \A i \in DOMAIN chats, j \in DOMAIN chats : chats[i] = chats[j] => i = j

\* C37: the last 'joinChat' emitted on the session names the active chat
\* whenever the session is connected and a chat is active. Stated on the
\* steps: every 'joinChat' that a step emits names the chat that is active
\* after the step, and a step after which the session is connected with a chat
\* active, and which changed the active chat or connected the socket, emits a
\* 'joinChat'.
C37_RoomFollowsActiveChat ==
    [][/\ \A k \in DOMAIN out' :
              out'[k].type = "joinChat" => out'[k].payload.chatId = activeChatId'
       /\ (/\ status' = CONNECTED
           /\ socket' = "set" /\ socketConnected'
           /\ ~settings'.isDemoMode
           /\ activeChatId' # NoChat
           /\ \/ activeChatId' # activeChatId
              \/ ~socketConnected)
          => \E k \in DOMAIN out' : out'[k].type = "joinChat"]_vars

\* the socket has just connected while "c2", which only the user selects, is
\* active: the handler has joined the room of "c2"
C37_Witness ==
    /\ op = "connect"
    /\ status = CONNECTED
    /\ activeChatId = "c2"
    /\ \E k \in DOMAIN out :
           out[k].type = "joinChat" /\ out[k].payload.chatId = "c2"

\* C38: a directory fetch changes the active chat only if no chat is active
\* when its result is applied; a chat selected while the fetch was in flight
\* stays selected when the fetch completes.
C38_AutoSelectKeepsSelection ==
    [][(op' = "fetchChatsDone" /\ activeChatId # NoChat)
           => activeChatId' = activeChatId]_vars

\* C39: every step that takes the status into Connected while a chat is
\* active and demo mode is off empties the log and starts a history fetch for
\* the active chat; when that fetch succeeds as the next step, the log is the
\* server's history of the active chat, oldest row first.
C39_ReconnectReloadsHistory ==
    [][/\ (/\ status' = CONNECTED
           /\ status # CONNECTED
           /\ ~settings'.isDemoMode
           /\ activeChatId' # NoChat)
          => /\ messages' = <<>>
             /\ \E f \in histPending' :
                   f.chatId = activeChatId' /\ f.username = settings'.username
       /\ \A f \in histPending :
             (/\ op = "connect"
              /\ op' = "historyLoaded"
              /\ f.chatId = activeChatId
              /\ f.username = settings.username
              /\ HistoryLoaded(f, TRUE))
             => LET rows == ServerHistory(activeChatId)
                    n == Len(rows)
                IN  /\ Len(messages') = n
                    /\ \A i \in 1..n : messages'[i].id = rows[n + 1 - i].id
                    /\ \A i \in 1..n : messages'[i].chatId = activeChatId]_vars

\* the socket has connected again with "c2" active: the log is empty and the
\* history of "c2" is being fetched
C39_Witness ==
    /\ op = "connect"
    /\ status = CONNECTED
    /\ ~settings.isDemoMode
    /\ activeChatId = "c2"
    /\ messages = <<>>
    /\ \E f \in histPending : f.chatId = "c2"

====
